---- MODULE Spec2Model ----
(***************************************************************************)
(* Mythic Bastionland combat tracker (src/app.py): the Character record,   *)
(* its damage-resolution method apply_damage, the heal / restore / reset   *)
(* methods, and the handlers of the character management page that write   *)
(* the record's fields directly (manual adjustments, edit form).           *)
(*                                                                         *)
(* One character is followed from its creation.  Every step is one call    *)
(* of a method or one handler; `pre` keeps the record as it was when the   *)
(* call started, `op` and `arg` name the call, and `result` is the value   *)
(* apply_damage returned.  Between calls op is "idle".  The roster of the *)
(* session and the combat page that picks apply_damage's target are a      *)
(* second machine over the same operators (SpecApp).                       *)
(***************************************************************************)
EXTENDS Integers, Sequences, FiniteSets

\* ---------------------------------------------------------------- bounds
\* The creation form allows 1..50 for vigor, clarity and spirit, 0..50 for
\* guard and 0..20 for armor; the model explores the low end of each range.
MaxVigor == 5
MaxGuard == 2
MaxArmor == 1
\* clarity and spirit (no method but reset_to_full and the edit form writes
\* them)
MaxMind == 1

\* Largest damage amount tried: one more than everything a character can
\* absorb, so that overkill happens.
MaxDamage == MaxArmor + MaxGuard + MaxVigor + 1

VARIABLES
    character,      \* the Character record (dataclass fields)
    pre,            \* the record when the last call started
    op,             \* the last call
    arg,            \* its amount argument (0 when it has none)
    result,         \* what the last call returned (apply_damage's report)
    vigor_hit_zero, \* history: vigor has been 0 since the last reset_to_full
    characters,     \* st.session_state.characters: the roster, a dict
                    \* keyed by name, as the sequence of its values in
                    \* insertion order
    selected_target,       \* st.session_state.selected_target
    last_damage_result,    \* st.session_state.last_damage_result
    last_target            \* st.session_state.last_target

\* The session state of the pages.
session == <<characters, selected_target, last_damage_result, last_target>>

vars == <<character, pre, op, arg, result, vigor_hit_zero, session>>

\* ------------------------------------------------------------- helpers
Min(a, b) == IF a <= b THEN a ELSE b
Max(a, b) == IF a >= b THEN a ELSE b

\* An entry of damage_log.  The code appends formatted strings; an entry is
\* modelled by the kind of sentence and the numbers formatted into it.
Event(kind, amount, now) == [kind |-> kind, amount |-> amount, now |-> now]

\* A key that st.session_state does not hold yet.
Unset == "<unset>"

\* A call that returns None.
NoResult == [original_damage |-> 0, final_damage |-> 0, damage_log |-> <<>>,
             wounded |-> FALSE, mortal_wound_inflicted |-> FALSE,
             scar_inflicted |-> FALSE, character_slain |-> FALSE]

\* ------------------------------------------------------- Character(...)
\* character_creation_page: every pool starts at its maximum, the flags take
\* the dataclass defaults, the notes box of the form is left empty.
\* (profile_image, bytes that only the upload handlers and the display
\* read, is left out.)
NewCharacter(name, vigor, clarity, spirit, guard, armor) ==
    [name |-> name,
     vigor |-> vigor, max_vigor |-> vigor,
     clarity |-> clarity, max_clarity |-> clarity,
     spirit |-> spirit, max_spirit |-> spirit,
     guard |-> guard, max_guard |-> guard,
     armor |-> armor,
     is_mortally_wounded |-> FALSE, is_wounded |-> FALSE,
     is_impaired |-> FALSE, is_fatigued |-> FALSE,
     is_scarred |-> FALSE, is_alive |-> TRUE,
     notes |-> ""]

\* --------------------------------------------------- apply_damage stages
\* Variant of ArmorStage: armor is logged but the damage passes undiminished.
ArmorStageNoAbsorb(self, damage) ==
    IF self.armor > 0
    THEN [damage |-> damage,
          damage_log |-> <<Event("armor", Min(damage, self.armor), 0)>>]
    ELSE [damage |-> damage, damage_log |-> <<>>]

\* Variant of ArmorStage: the log entry carries the armor value, not what
\* the armor absorbed.
ArmorStageLogsArmor(self, damage) ==
    IF self.armor > 0
    THEN [damage |-> damage - Min(damage, self.armor),
          damage_log |-> <<Event("armor", self.armor, 0)>>]
    ELSE [damage |-> damage, damage_log |-> <<>>]

\* Step 1: Subtract Armor.  The stage runs (and logs) only when armor > 0.
ArmorStage(self, damage) ==
    IF self.armor > 0
    THEN LET armor_absorbed == Min(damage, self.armor)
         IN  [damage |-> damage - armor_absorbed,
              damage_log |-> <<Event("armor", armor_absorbed, 0)>>]
    ELSE [damage |-> damage, damage_log |-> <<>>]

\* Variant of ScarCheck: any loss of guard scars.
ScarCheckAnyLoss(original_guard, guard) == original_guard > 0

\* Check for Scar: guard reduced to exactly 0.
ScarCheck(original_guard, guard) == original_guard > 0 /\ guard = 0

\* Variant of GuardStage: the stage does not test that damage is left.
GuardStageAlways(self, s) ==
    IF self.guard > 0
    THEN LET guard_damage == Min(s.damage, self.guard)
             guard == self.guard - guard_damage
             scar == ScarCheck(self.guard, guard)
         IN  [self |-> [self EXCEPT !.guard = guard,
                                    !.is_scarred = IF scar THEN TRUE ELSE @],
              damage |-> s.damage - guard_damage,
              damage_log |->
                  s.damage_log \o <<Event("guard", guard_damage, guard)>>
                  \o (IF scar THEN <<Event("scar", 0, 0)>> ELSE <<>>),
              scar_inflicted |-> scar]
    ELSE [self |-> self, damage |-> s.damage, damage_log |-> s.damage_log,
          scar_inflicted |-> FALSE]

\* Variant of GuardStage: the scar entry is logged before the guard entry.
GuardStageScarFirst(self, s) ==
    IF s.damage > 0 /\ self.guard > 0
    THEN LET guard_damage == Min(s.damage, self.guard)
             guard == self.guard - guard_damage
             scar == ScarCheck(self.guard, guard)
         IN  [self |-> [self EXCEPT !.guard = guard,
                                    !.is_scarred = IF scar THEN TRUE ELSE @],
              damage |-> s.damage - guard_damage,
              damage_log |->
                  s.damage_log
                  \o (IF scar THEN <<Event("scar", 0, 0)>> ELSE <<>>)
                  \o <<Event("guard", guard_damage, guard)>>,
              scar_inflicted |-> scar]
    ELSE [self |-> self, damage |-> s.damage, damage_log |-> s.damage_log,
          scar_inflicted |-> FALSE]

\* Step 2: Subtract from Guard.  s is what the armor stage left.
GuardStage(self, s) ==
    IF s.damage > 0 /\ self.guard > 0
    THEN LET original_guard == self.guard
             guard_damage == Min(s.damage, self.guard)
             guard == self.guard - guard_damage
             scar == ScarCheck(original_guard, guard)
         IN  [self |-> [self EXCEPT !.guard = guard,
                                    !.is_scarred = IF scar THEN TRUE ELSE @],
              damage |-> s.damage - guard_damage,
              damage_log |->
                  s.damage_log \o <<Event("guard", guard_damage, guard)>>
                  \o (IF scar THEN <<Event("scar", 0, 0)>> ELSE <<>>),
              scar_inflicted |-> scar]
    ELSE [self |-> self, damage |-> s.damage, damage_log |-> s.damage_log,
          scar_inflicted |-> FALSE]

\* Variant of MortalWoundCheck: the half is taken with integer division.
MortalWoundCheckTruncated(vigor_damage, original_vigor) ==
    vigor_damage >= original_vigor \div 2

\* Check for Mortal Wound: vigor_damage >= (original_vigor / 2).  Python's /
\* is true division, so the comparison is the exact rational one.
MortalWoundCheck(vigor_damage, original_vigor) ==
    2 * vigor_damage >= original_vigor

\* Variant of DeathCheck: strict comparison.
DeathCheckStrict(vigor) == vigor < 0

\* Check for death.
DeathCheck(vigor) == vigor <= 0

\* Variant of VigorStage: the stage does not test that damage is left.
VigorStageAlways(s) ==
    LET vigor_damage == Min(s.damage, s.self.vigor)
        vigor == s.self.vigor - vigor_damage
        wounded == vigor_damage > 0
        mortal == MortalWoundCheck(vigor_damage, s.self.vigor)
        slain == DeathCheck(vigor)
    IN  [self |-> [s.self EXCEPT
                       !.vigor = vigor,
                       !.is_wounded = IF wounded THEN TRUE ELSE @,
                       !.is_mortally_wounded = IF mortal THEN TRUE ELSE @,
                       !.is_alive = IF slain THEN FALSE ELSE @],
         damage |-> s.damage - vigor_damage,
         damage_log |->
             s.damage_log \o <<Event("vigor", vigor_damage, vigor)>>
             \o (IF wounded THEN <<Event("wounded", 0, 0)>> ELSE <<>>)
             \o (IF mortal THEN <<Event("mortal", 0, 0)>> ELSE <<>>)
             \o (IF slain THEN <<Event("slain", 0, 0)>> ELSE <<>>),
         scar_inflicted |-> s.scar_inflicted,
         wounded |-> wounded,
         mortal_wound_inflicted |-> mortal]

\* Variant of VigorStage: the character is wounded whenever the stage runs.
VigorStageWoundsOnEntry(s) ==
    IF s.damage > 0
    THEN LET vigor_damage == Min(s.damage, s.self.vigor)
             vigor == s.self.vigor - vigor_damage
             mortal == MortalWoundCheck(vigor_damage, s.self.vigor)
             slain == DeathCheck(vigor)
         IN  [self |-> [s.self EXCEPT
                            !.vigor = vigor,
                            !.is_wounded = TRUE,
                            !.is_mortally_wounded = IF mortal THEN TRUE ELSE @,
                            !.is_alive = IF slain THEN FALSE ELSE @],
              damage |-> s.damage - vigor_damage,
              damage_log |->
                  s.damage_log \o <<Event("vigor", vigor_damage, vigor)>>
                  \o <<Event("wounded", 0, 0)>>
                  \o (IF mortal THEN <<Event("mortal", 0, 0)>> ELSE <<>>)
                  \o (IF slain THEN <<Event("slain", 0, 0)>> ELSE <<>>),
              scar_inflicted |-> s.scar_inflicted,
              wounded |-> TRUE,
              mortal_wound_inflicted |-> mortal]
    ELSE [self |-> s.self, damage |-> s.damage, damage_log |-> s.damage_log,
          scar_inflicted |-> s.scar_inflicted,
          wounded |-> FALSE, mortal_wound_inflicted |-> FALSE]

\* Step 3: Subtract remaining damage from Vigor.  s is what the guard stage
\* left.
VigorStage(s) ==
    IF s.damage > 0
    THEN LET original_vigor == s.self.vigor
             vigor_damage == Min(s.damage, s.self.vigor)
             vigor == s.self.vigor - vigor_damage
             wounded == vigor_damage > 0
             mortal == MortalWoundCheck(vigor_damage, original_vigor)
             slain == DeathCheck(vigor)
         IN  [self |-> [s.self EXCEPT
                            !.vigor = vigor,
                            !.is_wounded = IF wounded THEN TRUE ELSE @,
                            !.is_mortally_wounded = IF mortal THEN TRUE ELSE @,
                            !.is_alive = IF slain THEN FALSE ELSE @],
              damage |-> s.damage - vigor_damage,
              damage_log |->
                  s.damage_log \o <<Event("vigor", vigor_damage, vigor)>>
                  \o (IF wounded THEN <<Event("wounded", 0, 0)>> ELSE <<>>)
                  \o (IF mortal THEN <<Event("mortal", 0, 0)>> ELSE <<>>)
                  \o (IF slain THEN <<Event("slain", 0, 0)>> ELSE <<>>),
              scar_inflicted |-> s.scar_inflicted,
              wounded |-> wounded,
              mortal_wound_inflicted |-> mortal]
    ELSE [self |-> s.self, damage |-> s.damage, damage_log |-> s.damage_log,
          scar_inflicted |-> s.scar_inflicted,
          wounded |-> FALSE, mortal_wound_inflicted |-> FALSE]

\* Variant of DamageReport: final_damage reports the incoming damage.
DamageReportRaw(original_damage, v) ==
    [original_damage |-> original_damage,
     final_damage |-> original_damage,
     damage_log |-> v.damage_log,
     wounded |-> v.wounded,
     mortal_wound_inflicted |-> v.mortal_wound_inflicted,
     scar_inflicted |-> v.scar_inflicted,
     character_slain |-> ~v.self.is_alive]

\* The returned dict.  original_damage is the argument, v what the three
\* stages left.
DamageReport(original_damage, v) ==
    [original_damage |-> original_damage,
     final_damage |-> original_damage - v.damage,
     damage_log |-> v.damage_log,
     wounded |-> v.wounded,
     mortal_wound_inflicted |-> v.mortal_wound_inflicted,
     scar_inflicted |-> v.scar_inflicted,
     character_slain |-> ~v.self.is_alive]

\* Variant of apply_damage: what the armor absorbed is taken off the armor.
apply_damage_spends_armor(self, damage) ==
    LET v == VigorStage(GuardStage(self, ArmorStage(self, damage)))
    IN  [self |-> [v.self EXCEPT !.armor = @ - Min(damage, @)],
         result |-> DamageReport(damage, v)]

\* Character.apply_damage: the record afterwards and the report.
apply_damage(self, damage) ==
    LET v == VigorStage(GuardStage(self, ArmorStage(self, damage)))
    IN  [self |-> v.self, result |-> DamageReport(damage, v)]

\* ------------------------------------------------- the other methods
\* "If fully healed, remove wounded and mortally wounded status".
FullyHealed(self) == self.vigor = self.max_vigor

\* Variant of heal_vigor: a heal that leaves vigor above 0 revives.
heal_vigor_revives(self, amount) ==
    LET vigor == Min(self.vigor + amount, self.max_vigor)
        healed == [self EXCEPT !.vigor = vigor,
                               !.is_alive = IF vigor > 0 THEN TRUE ELSE @]
    IN  IF FullyHealed(healed)
        THEN [healed EXCEPT !.is_wounded = FALSE, !.is_mortally_wounded = FALSE]
        ELSE healed

\* Character.heal_vigor
heal_vigor(self, amount) ==
    LET healed == [self EXCEPT !.vigor = Min(self.vigor + amount, self.max_vigor)]
    IN  IF FullyHealed(healed)
        THEN [healed EXCEPT !.is_wounded = FALSE, !.is_mortally_wounded = FALSE]
        ELSE healed

\* Variant of restore_guard: no cap at max_guard.
restore_guard_uncapped(self, amount) ==
    [self EXCEPT !.guard = self.guard + amount]

\* Variant of restore_guard: guard back at its maximum clears the scar.
restore_guard_clears_scar(self, amount) ==
    LET guard == Min(self.guard + amount, self.max_guard)
    IN  [self EXCEPT !.guard = guard,
                     !.is_scarred = IF guard = self.max_guard THEN FALSE ELSE @]

\* Character.restore_guard
restore_guard(self, amount) ==
    [self EXCEPT !.guard = Min(self.guard + amount, self.max_guard)]

\* Character.reset_to_full
reset_to_full(self) ==
    [self EXCEPT !.vigor = self.max_vigor,
                 !.clarity = self.max_clarity,
                 !.spirit = self.max_spirit,
                 !.guard = self.max_guard,
                 !.is_mortally_wounded = FALSE,
                 !.is_wounded = FALSE,
                 !.is_impaired = FALSE,
                 !.is_fatigued = FALSE,
                 !.is_scarred = FALSE,
                 !.is_alive = TRUE]

\* ------------------------------------- character_management_page handlers
\* Variant of Clamp: no floor at 0.
ClampNoFloor(value, maximum) == Min(value, maximum)

\* The clamp both manual adjustments apply.
Clamp(value, maximum) == Max(0, Min(value, maximum))

\* Variant of apply_vigor_change: vigor at 0 does not end the character's
\* life.
apply_vigor_change_keeps_alive(self, vigor_change) ==
    LET vigor == Clamp(self.vigor + vigor_change, self.max_vigor)
        moved == [self EXCEPT !.vigor = vigor]
    IN  IF vigor = self.max_vigor
        THEN [moved EXCEPT !.is_wounded = FALSE,
                           !.is_mortally_wounded = FALSE]
        ELSE moved

\* "Apply Vigor Change"
apply_vigor_change(self, vigor_change) ==
    LET vigor == Clamp(self.vigor + vigor_change, self.max_vigor)
        moved == [self EXCEPT !.vigor = vigor]
    IN  IF vigor <= 0
        THEN [moved EXCEPT !.is_alive = FALSE]
        ELSE IF vigor = self.max_vigor
             THEN [moved EXCEPT !.is_wounded = FALSE,
                                !.is_mortally_wounded = FALSE]
             ELSE moved

\* "Apply Guard Change"
apply_guard_change(self, guard_change) ==
    [self EXCEPT !.guard = Clamp(self.guard + guard_change, self.max_guard)]

\* "Update Character" (the edit form): the new maxima and armor, then each
\* current value cut down to its new maximum.
update_character(self, new_max_vigor, new_max_clarity, new_max_spirit, new_max_guard, new_armor) ==
    [self EXCEPT !.max_vigor = new_max_vigor,
                 !.max_clarity = new_max_clarity,
                 !.max_spirit = new_max_spirit,
                 !.max_guard = new_max_guard,
                 !.armor = new_armor,
                 !.vigor = Min(self.vigor, new_max_vigor),
                 !.clarity = Min(self.clarity, new_max_clarity),
                 !.spirit = Min(self.spirit, new_max_spirit),
                 !.guard = Min(self.guard, new_max_guard)]

\* The Scarred status toggle.
toggle_scarred(self) == [self EXCEPT !.is_scarred = ~@]

\* The Impaired and Fatigued status toggles (management page and combat
\* page alike).
toggle_impaired(self) == [self EXCEPT !.is_impaired = ~@]
toggle_fatigued(self) == [self EXCEPT !.is_fatigued = ~@]

\* What the operator may have typed in the notes box.
NoteTexts == {"", "rested at the keep"}

\* "Save Notes" and "Clear Notes".
save_notes(self, notes_text) == [self EXCEPT !.notes = notes_text]
clear_notes(self) == [self EXCEPT !.notes = ""]

\* ------------------------------------------------------- state machine
\* A character as the creation form makes it.  No method reads or writes
\* the name; one name stands for all.
Init ==
    /\ \E vigor \in 1..MaxVigor, clarity \in 1..MaxMind, spirit \in 1..MaxMind,
          guard \in 0..MaxGuard, armor \in 0..MaxArmor :
          character = NewCharacter("a", vigor, clarity, spirit, guard, armor)
    /\ pre = character
    /\ op = "idle"
    /\ arg = 0
    /\ result = NoResult
    /\ vigor_hit_zero = FALSE
    /\ characters = <<>>
    /\ selected_target = Unset
    /\ last_damage_result = NoResult
    /\ last_target = Unset

\* A call starts only when the previous one has returned (the program is
\* single-threaded and synchronous).
Idle == op = "idle"

\* A call that returns nothing and leaves `after`.
Step(name, amount, after) ==
    /\ character' = after
    /\ pre' = character
    /\ op' = name
    /\ arg' = amount
    /\ result' = NoResult
    /\ vigor_hit_zero' = (vigor_hit_zero \/ after.vigor = 0)
    /\ UNCHANGED session

ApplyDamage ==
    /\ Idle
    /\ \E damage \in 0..MaxDamage :
        LET r == apply_damage(character, damage)
        IN  /\ character' = r.self
            /\ pre' = character
            /\ op' = "apply_damage"
            /\ arg' = damage
            /\ result' = r.result
            /\ vigor_hit_zero' = (vigor_hit_zero \/ r.self.vigor = 0)
            /\ UNCHANGED session

HealVigor ==
    /\ Idle
    /\ \E amount \in 0..MaxVigor :
        Step("heal_vigor", amount, heal_vigor(character, amount))

RestoreGuard ==
    /\ Idle
    /\ \E amount \in 0..MaxGuard :
        Step("restore_guard", amount, restore_guard(character, amount))

ResetToFull ==
    /\ Idle
    /\ character' = reset_to_full(character)
    /\ pre' = character
    /\ op' = "reset_to_full"
    /\ arg' = 0
    /\ result' = NoResult
    /\ vigor_hit_zero' = FALSE
    /\ UNCHANGED session

ApplyVigorChange ==
    /\ Idle
    /\ \E vigor_change \in (0 - MaxVigor)..MaxVigor :
        Step("apply_vigor_change", vigor_change,
             apply_vigor_change(character, vigor_change))

ApplyGuardChange ==
    /\ Idle
    /\ \E guard_change \in (0 - MaxGuard)..MaxGuard :
        Step("apply_guard_change", guard_change,
             apply_guard_change(character, guard_change))

\* The edit form opens with the record's current maxima and armor in its
\* fields; the operator retypes one of them and submits, and the handler
\* writes all five.  (Each clamp of the handler reads only its own maximum,
\* so a submission that changes several fields leaves the record that the
\* one-field submissions leave one after the other.)
Submit(new_max_vigor, new_max_clarity, new_max_spirit, new_max_guard, new_armor) ==
    Step("update_character", 0,
         update_character(character, new_max_vigor, new_max_clarity,
                          new_max_spirit, new_max_guard, new_armor))

UpdateCharacter ==
    /\ Idle
    /\ \/ \E new_max_vigor \in 1..MaxVigor :
              Submit(new_max_vigor, character.max_clarity,
                     character.max_spirit, character.max_guard,
                     character.armor)
       \/ \E new_max_clarity \in 1..MaxMind :
              Submit(character.max_vigor, new_max_clarity,
                     character.max_spirit, character.max_guard,
                     character.armor)
       \/ \E new_max_spirit \in 1..MaxMind :
              Submit(character.max_vigor, character.max_clarity,
                     new_max_spirit, character.max_guard, character.armor)
       \/ \E new_max_guard \in 0..MaxGuard :
              Submit(character.max_vigor, character.max_clarity,
                     character.max_spirit, new_max_guard, character.armor)
       \/ \E new_armor \in 0..MaxArmor :
              Submit(character.max_vigor, character.max_clarity,
                     character.max_spirit, character.max_guard, new_armor)

\* "Mark Scarred" / "Clear Scar".  (The Impaired and Fatigued toggles write
\* only is_impaired and is_fatigued, which no method reads and only
\* reset_to_full clears; they are not steps of this machine.)
ToggleScarred == Idle /\ Step("toggle_scarred", 0, toggle_scarred(character))

\* The call has returned and its caller is done with the result: the record
\* stays as the call left it.
Return ==
    /\ ~Idle
    /\ op' = "idle"
    /\ pre' = character
    /\ arg' = 0
    /\ result' = NoResult
    /\ UNCHANGED <<character, vigor_hit_zero, session>>

Next ==
    \/ ApplyDamage
    \/ HealVigor
    \/ RestoreGuard
    \/ ResetToFull
    \/ ApplyVigorChange
    \/ ApplyGuardChange
    \/ UpdateCharacter
    \/ ToggleScarred
    \/ Return

Spec == Init /\ [][Next]_vars

\* ================================================================ claims
\* What the claims read off a state in which a call has just returned.
Damaged == op = "apply_damage"

\* Damage left after the armor stage / after the armor and guard stages,
\* computed from the record as it was before the hit.
AfterArmor == arg - Min(arg, pre.armor)
AfterGuard == AfterArmor - Min(AfterArmor, pre.guard)
GuardLoss == pre.guard - character.guard
VigorLoss == pre.vigor - character.vigor

\* How many entries of the report's damage_log are of the given kind.
Logged(kind) ==
    Cardinality({i \in DOMAIN result.damage_log :
                    result.damage_log[i].kind = kind})

\* C1 -- Clamping invariant: from a freshly created character, after any
\* sequence of apply_damage, heal_vigor, restore_guard, reset_to_full, the
\* edit form's new maxima and the manual vigor / guard adjustments, every
\* pool satisfies 0 <= current <= maximum.
C1_Clamping ==
    /\ 0 <= character.vigor /\ character.vigor <= character.max_vigor
    /\ 0 <= character.guard /\ character.guard <= character.max_guard
    /\ 0 <= character.clarity /\ character.clarity <= character.max_clarity
    /\ 0 <= character.spirit /\ character.spirit <= character.max_spirit

\* A manual vigor change that would have taken vigor below 0, stopped at 0.
C1_Witness ==
    /\ op = "apply_vigor_change"
    /\ pre.vigor > 0
    /\ pre.vigor + arg < 0
    /\ character.vigor = 0

\* C2 -- Three-stage pipeline result: after apply_damage the new guard is
\* guard_before - min(max(damage - armor, 0), guard_before) and the new vigor
\* is vigor_before - min(max(damage - armor - guard_before, 0), vigor_before);
\* guard changes only when damage > armor, vigor only when
\* damage > armor + guard_before.
C2_Pipeline ==
    Damaged =>
        /\ character.guard =
               pre.guard - Min(Max(arg - pre.armor, 0), pre.guard)
        /\ character.vigor =
               pre.vigor - Min(Max(arg - pre.armor - pre.guard, 0), pre.vigor)
        /\ (character.guard # pre.guard => arg > pre.armor)
        /\ (character.vigor # pre.vigor => arg > pre.armor + pre.guard)

\* A hit that passes armor, empties guard and takes part of the vigor.
C2_Witness ==
    /\ Damaged
    /\ pre.armor > 0 /\ pre.guard > 0
    /\ arg > pre.armor + pre.guard
    /\ character.guard = 0
    /\ character.vigor < pre.vigor /\ character.vigor > 0

C4_MortalRule ==
    Damaged =>
        LET mortal == AfterGuard > 0 /\ 2 * VigorLoss >= pre.vigor
        IN  /\ result.mortal_wound_inflicted = mortal
            /\ (mortal => character.is_mortally_wounded)
            /\ (~mortal =>
                    character.is_mortally_wounded = pre.is_mortally_wounded)

\* Vigor 5 loses 2: below the half of 5, so no mortal wound.
C4_Witness ==
    /\ Damaged
    /\ pre.vigor = 5 /\ character.vigor = 3
    /\ ~result.mortal_wound_inflicted
    /\ ~character.is_mortally_wounded

\* C5 -- Scar rule: the report's scar_inflicted is true exactly when guard
\* was > 0 before the call and is 0 after it (the damage left by armor is
\* >= guard_before > 0); then is_scarred is true, the log holds exactly one
\* scar entry, and vigor is unchanged when the damage left by armor equals
\* guard_before.  Otherwise scar_inflicted is false, no scar entry is
\* logged and is_scarred keeps its value.
C5_ScarRule ==
    Damaged =>
        LET scar == pre.guard > 0 /\ character.guard = 0
        IN  /\ result.scar_inflicted = scar
            /\ scar = (AfterArmor >= pre.guard /\ pre.guard > 0)
            /\ (scar =>
                    /\ character.is_scarred
                    /\ Logged("scar") = 1
                    /\ (AfterArmor = pre.guard => character.vigor = pre.vigor))
            /\ (~scar =>
                    /\ Logged("scar") = 0
                    /\ character.is_scarred = pre.is_scarred)

\* A hit well beyond the guard of an unscarred character: one scar.
C5_Witness ==
    /\ Damaged
    /\ ~pre.is_scarred
    /\ pre.guard = 2
    /\ AfterArmor > pre.guard + 1
    /\ result.scar_inflicted
    /\ character.is_scarred

\* C6 -- Death rule and slain signal: if the vigor stage ran and vigor is 0
\* afterwards, is_alive is false; if it did not run or vigor stays > 0,
\* is_alive keeps its value; character_slain is the negation of is_alive
\* after the hit; a hit that takes vigor to 0 reports the mortal wound and
\* character_slain both.
C6_DeathRule ==
    Damaged =>
        /\ (AfterGuard > 0 /\ character.vigor = 0 => ~character.is_alive)
        /\ (AfterGuard = 0 \/ character.vigor > 0
                => character.is_alive = pre.is_alive)
        /\ result.character_slain = ~character.is_alive
        /\ (AfterGuard > 0 /\ character.vigor = 0
                => result.mortal_wound_inflicted /\ result.character_slain)

\* A living character is hit down to vigor 0.
C6_Witness ==
    /\ Damaged
    /\ pre.is_alive /\ pre.vigor > 0
    /\ character.vigor = 0
    /\ ~character.is_alive
    /\ result.character_slain

\* C7 -- Alive-status history: is_alive is false exactly when vigor has been
\* 0 at some earlier point with no reset_to_full since; no call other than
\* reset_to_full turns is_alive from false to true (heal_vigor up to
\* max_vigor included).
C7_AliveHistory ==
    /\ character.is_alive = ~vigor_hit_zero
    /\ (~pre.is_alive /\ character.is_alive => op = "reset_to_full")

\* A slain character healed to full vigor stays slain.
C7_Witness ==
    /\ op = "heal_vigor"
    /\ ~pre.is_alive /\ pre.vigor = 0
    /\ character.vigor = character.max_vigor
    /\ ~character.is_alive

\* C8 -- Wound flags are cleared exactly on full heal: is_wounded and
\* is_mortally_wounded go from true to false only in a step that ends with
\* vigor = max_vigor; a heal_vigor that leaves vigor < max_vigor leaves both
\* unchanged; and whenever vigor returns to max_vigor both are false
\* afterwards.
C8_OnlyOnFullHeal ==
    /\ (pre.is_wounded /\ ~character.is_wounded
            => character.vigor = character.max_vigor)
    /\ (pre.is_mortally_wounded /\ ~character.is_mortally_wounded
            => character.vigor = character.max_vigor)

C8_PartialHealKeeps ==
    op = "heal_vigor" /\ character.vigor < character.max_vigor =>
        /\ character.is_wounded = pre.is_wounded
        /\ character.is_mortally_wounded = pre.is_mortally_wounded

C8_BackAtMaximum ==
    pre.vigor < pre.max_vigor /\ character.vigor = character.max_vigor =>
        ~character.is_wounded /\ ~character.is_mortally_wounded

C8_WoundFlagsCleared ==
    C8_OnlyOnFullHeal /\ C8_PartialHealKeeps /\ C8_BackAtMaximum

\* C9 as stated -- Zero damage: for every record (slain ones included),
\* apply_damage(0) logs no mitigation entry, reports all four outcome flags
\* false and leaves the record unchanged.
C9_ZeroDamageAsStated ==
    Damaged /\ arg = 0 =>
        /\ result.damage_log = <<>>
        /\ ~result.wounded
        /\ ~result.mortal_wound_inflicted
        /\ ~result.scar_inflicted
        /\ ~result.character_slain
        /\ character = pre

\* C9 amended -- Zero damage: apply_damage(0) leaves the record unchanged and
\* reports wounded, mortal_wound_inflicted and scar_inflicted false; the log
\* is empty when armor = 0 and holds the single entry "Armor absorbed 0
\* damage" when armor > 0; character_slain is the negation of is_alive, so
\* it is false for a living record and true for one already slain.
C9_ZeroDamage ==
    Damaged /\ arg = 0 =>
        /\ result.damage_log =
               (IF pre.armor > 0 THEN <<Event("armor", 0, 0)>> ELSE <<>>)
        /\ ~result.wounded
        /\ ~result.mortal_wound_inflicted
        /\ ~result.scar_inflicted
        /\ result.character_slain = ~pre.is_alive
        /\ character = pre

\* Zero damage on an armored, already slain character.
C9_Witness ==
    /\ Damaged /\ arg = 0
    /\ pre.armor > 0
    /\ ~pre.is_alive
    /\ result.character_slain
    /\ Len(result.damage_log) = 1

\* C10 as stated -- Hit fully absorbed by armor: for every record and
\* 0 < damage <= armor, guard, vigor and the condition flags are unchanged,
\* the log holds only the armor entry, and the report carries no wound,
\* mortal-wound, scar or character_slain signal.
C10_ArmorAbsorbsAsStated ==
    Damaged /\ 0 < arg /\ arg <= pre.armor =>
        /\ character = pre
        /\ result.damage_log = <<Event("armor", arg, 0)>>
        /\ ~result.wounded
        /\ ~result.mortal_wound_inflicted
        /\ ~result.scar_inflicted
        /\ ~result.character_slain

\* C10 amended -- as stated, except that character_slain is the negation of
\* is_alive: false for a living record, true for a record that was already
\* slain before the hit (no slain entry is logged either way).
C10_ArmorAbsorbs ==
    Damaged /\ 0 < arg /\ arg <= pre.armor =>
        /\ character = pre
        /\ result.damage_log = <<Event("armor", arg, 0)>>
        /\ ~result.wounded
        /\ ~result.mortal_wound_inflicted
        /\ ~result.scar_inflicted
        /\ result.character_slain = ~pre.is_alive
        /\ Logged("slain") = 0

\* A wounded, living character with guard left takes a hit its armor absorbs.
C10_Witness ==
    /\ Damaged
    /\ 0 < arg /\ arg <= pre.armor
    /\ pre.is_alive /\ pre.is_wounded
    /\ pre.guard > 0
    /\ ~result.character_slain

\* C11 as stated -- Scar persistence: once is_scarred is true it stays true
\* through every call but reset_to_full, the only operation that sets
\* is_scarred from true to false.
C11_ScarPersistsAsStated ==
    pre.is_scarred /\ ~character.is_scarred => op = "reset_to_full"

\* C11 amended -- once is_scarred is true it stays true through apply_damage,
\* heal_vigor, restore_guard (restoring to max_guard included), the edit
\* form and the manual adjustments; reset_to_full and the manual
\* "Clear Scar" toggle are the only operations that set it from true to
\* false.
C11_ScarPersists ==
    pre.is_scarred /\ ~character.is_scarred
        => op \in {"reset_to_full", "toggle_scarred"}

\* A scarred character's guard is restored to its maximum: still scarred.
C11_Witness ==
    /\ op = "restore_guard"
    /\ pre.is_scarred
    /\ pre.guard < pre.max_guard
    /\ character.guard = character.max_guard
    /\ character.is_scarred

\* C12 as stated -- Armor event is always recorded: every apply_damage call
\* logs, as its first entry, an armor entry carrying min(damage, armor), for
\* every armor >= 0 (armor = 0 included, with 0 absorbed).
C12_ArmorEventAsStated ==
    Damaged =>
        /\ Len(result.damage_log) >= 1
        /\ result.damage_log[1] = Event("armor", Min(arg, pre.armor), 0)

\* C12 amended -- every apply_damage call on a record with armor > 0 logs, as
\* its first entry and only once, an armor entry carrying
\* min(damage, armor); on a record with armor = 0 no armor entry is logged.
C12_ArmorEvent ==
    Damaged =>
        IF pre.armor > 0
        THEN /\ Len(result.damage_log) >= 1
             /\ result.damage_log[1] = Event("armor", Min(arg, pre.armor), 0)
             /\ Logged("armor") = 1
        ELSE Logged("armor") = 0

\* A hit larger than the armor: the entry carries the armor's share only.
C12_Witness ==
    /\ Damaged
    /\ pre.armor > 0
    /\ arg > pre.armor + 1
    /\ result.damage_log[1] = Event("armor", pre.armor, 0)

\* The place of each kind of entry in the fixed order.
Rank(kind) ==
    CASE kind = "armor" -> 1
      [] kind = "guard" -> 2
      [] kind = "scar" -> 3
      [] kind = "vigor" -> 4
      [] kind = "wounded" -> 5
      [] kind = "mortal" -> 6
      [] kind = "slain" -> 7

\* C13 -- Event order: in every report the entries appear in the order
\* armor, guard, scar, vigor, wounded, mortal wound, slain, each kind at most
\* once; a scar entry comes directly after a guard entry; wounded, mortal
\* wound and slain entries come after a vigor entry of the same report.
C13_EventOrder ==
    LET log == result.damage_log
    IN  /\ \A i, j \in DOMAIN log :
               i < j => Rank(log[i].kind) < Rank(log[j].kind)
        /\ \A i \in DOMAIN log :
               log[i].kind = "scar" => i > 1 /\ log[i - 1].kind = "guard"
        /\ \A i \in DOMAIN log :
               log[i].kind \in {"wounded", "mortal", "slain"}
                   => \E j \in 1..(i - 1) : log[j].kind = "vigor"

\* A hit through armor and guard that slays: all seven entries.
C13_Witness ==
    /\ Damaged
    /\ Len(result.damage_log) = 7
    /\ result.damage_log[3].kind = "scar"
    /\ result.damage_log[7].kind = "slain"

\* C14 -- Wounded rule: the report's wounded flag is true, and is_wounded is
\* set, exactly when vigor was lost in this call; otherwise the flag is
\* false and is_wounded keeps its value.
C14_WoundedRule ==
    Damaged =>
        LET lost == VigorLoss > 0
        IN  /\ result.wounded = lost
            /\ (lost => character.is_wounded)
            /\ (~lost => character.is_wounded = pre.is_wounded)

\* The vigor stage runs on a character with no vigor left and no wound
\* flag: nothing is lost, so no wound.
C14_Witness ==
    /\ Damaged
    /\ AfterGuard > 0
    /\ pre.vigor = 0 /\ ~pre.is_wounded
    /\ ~result.wounded
    /\ ~character.is_wounded

\* C16 -- Heal/restore monotonicity: restore_guard(amount) leaves
\* guard = min(guard before + amount, max_guard), heal_vigor(amount) leaves
\* vigor = min(vigor before + amount, max_vigor); neither value is below
\* what it was nor above its maximum, and restore_guard changes no field
\* other than guard.
C16_Monotone ==
    /\ op = "restore_guard" =>
           /\ character.guard = Min(pre.guard + arg, pre.max_guard)
           /\ character.guard >= pre.guard
           /\ character.guard <= character.max_guard
           /\ character = [pre EXCEPT !.guard = character.guard]
    /\ op = "heal_vigor" =>
           /\ character.vigor = Min(pre.vigor + arg, pre.max_vigor)
           /\ character.vigor >= pre.vigor
           /\ character.vigor <= character.max_vigor

\* More guard restored than is missing: guard stops at max_guard.
C16_Witness ==
    /\ op = "restore_guard"
    /\ pre.guard < pre.max_guard
    /\ pre.guard + arg > pre.max_guard
    /\ character.guard = pre.max_guard

\* C17 -- Alive implies positive vigor: in every state reached from a newly
\* created character, is_alive implies vigor >= 1; equivalently vigor = 0
\* implies the character is not alive.
C17_AliveHasVigor ==
    /\ character.is_alive => character.vigor >= 1
    /\ character.vigor = 0 => ~character.is_alive

\* A manual vigor change takes a living character to 0.
C17_Witness ==
    /\ op = "apply_vigor_change"
    /\ pre.is_alive
    /\ character.vigor = 0
    /\ ~character.is_alive

\* The calls of the character record alone: the damage engine, the heal and
\* restore methods, the reset and the edit form, without the management
\* page's manual adjustments and toggles.
NextEngine ==
    \/ ApplyDamage
    \/ HealVigor
    \/ RestoreGuard
    \/ ResetToFull
    \/ UpdateCharacter
    \/ Return

SpecEngine == Init /\ [][NextEngine]_vars

\* C18, the record -- is_mortally_wounded implies is_wounded.
C18_MortalRecordIsWounded ==
    character.is_mortally_wounded => character.is_wounded

\* C18, the report -- a report that says a mortal wound was inflicted says
\* the character was wounded.
C18_MortalReportIsWounded ==
    Damaged => (result.mortal_wound_inflicted => result.wounded)

\* C18 -- Mortal wound implies wounded: in every state reached from a newly
\* created character by apply_damage (on living or slain characters),
\* heal_vigor, restore_guard, reset_to_full and the edit form,
\* is_mortally_wounded implies is_wounded, and in every report the mortal
\* wound flag implies the wounded flag.
C18_MortalImpliesWounded ==
    /\ C18_MortalRecordIsWounded
    /\ C18_MortalReportIsWounded

\* The record's sheet: hits, the status toggles that write is_impaired and
\* is_fatigued, the notes box, and the full heal.
ToggleImpaired == Idle /\ Step("toggle_impaired", 0, toggle_impaired(character))

ToggleFatigued == Idle /\ Step("toggle_fatigued", 0, toggle_fatigued(character))

SaveNotes ==
    /\ Idle
    /\ \E notes_text \in NoteTexts :
        Step("save_notes", 0, save_notes(character, notes_text))

ClearNotes == Idle /\ Step("clear_notes", 0, clear_notes(character))

NextSheet ==
    \/ ApplyDamage
    \/ ToggleImpaired
    \/ ToggleFatigued
    \/ SaveNotes
    \/ ClearNotes
    \/ ResetToFull
    \/ Return

SpecSheet == Init /\ [][NextSheet]_vars

\* C15 -- apply_damage frame: for every record and every damage >= 0,
\* apply_damage leaves armor, clarity, spirit, max_vigor, max_clarity,
\* max_spirit, max_guard, is_impaired, is_fatigued, name and notes
\* unchanged; only guard, vigor, is_scarred, is_wounded,
\* is_mortally_wounded and is_alive may differ, and the armor absorbs on the
\* next hit what it absorbed on this one.
C15_Frame ==
    Damaged =>
        /\ pre = [character EXCEPT !.guard = pre.guard,
                                   !.vigor = pre.vigor,
                                   !.is_scarred = pre.is_scarred,
                                   !.is_wounded = pre.is_wounded,
                                   !.is_mortally_wounded =
                                       pre.is_mortally_wounded,
                                   !.is_alive = pre.is_alive]
        /\ character.armor = pre.armor
        /\ \A damage \in 0..MaxDamage :
               ArmorStage(character, damage) = ArmorStage(pre, damage)

\* A hit through the armor into the vigor of a character hit before, with
\* impaired and fatigued marked and notes written.
C15_Witness ==
    /\ Damaged
    /\ pre.is_impaired /\ pre.is_fatigued /\ pre.notes # ""
    /\ pre.is_wounded
    /\ pre.armor > 0 /\ arg > pre.armor
    /\ character.vigor < pre.vigor
    /\ character.is_impaired /\ character.is_fatigued

\* ------------------------------------------------ the roster and its pages
\* The names typed into the creation form, and the largest vigor given to a
\* character of the roster.  The pages' gates read the roster's keys and
\* is_alive, which follows vigor alone: the roster's characters are made
\* with no guard and no armor, and every hit goes to their vigor.
RosterNames == {"a", "b"}
RosterVigor == 2
RosterDamage == RosterVigor + 1

\* Before any handler has run on a Character.
NoCharacter == [name |-> ""]

\* characters.keys()
Keys(chars) == {chars[i].name : i \in DOMAIN chars}

\* characters[name]
Lookup(chars, name) == chars[CHOOSE i \in DOMAIN chars : chars[i].name = name]

\* save_character: a new key goes last, a known key keeps its place.
save_character(chars, c) ==
    IF c.name \in Keys(chars)
    THEN [i \in DOMAIN chars |-> IF chars[i].name = c.name THEN c ELSE chars[i]]
    ELSE Append(chars, c)

\* delete_character
delete_character(chars, name) ==
    LET Others(c) == c.name # name IN SelectSeq(chars, Others)

\* Variant of alive_characters: the dead are not filtered out.
alive_characters_unfiltered(chars) == chars

\* combat_resolution_page: "Filter out dead characters for combat".
alive_characters(chars) ==
    LET Alive(c) == c.is_alive IN SelectSeq(chars, Alive)

\* combat_resolution_page: the selected target is set when the key is
\* missing, and set again when it is not among the living: the first of the
\* living either way.
FixedTarget(selected, alive) ==
    IF selected \notin Keys(alive) THEN alive[1].name ELSE selected

\* The session before the first page is shown.
InitApp ==
    /\ characters = <<>>
    /\ selected_target = Unset
    /\ last_damage_result = NoResult
    /\ last_target = Unset
    /\ character = NoCharacter
    /\ pre = NoCharacter
    /\ op = "idle"
    /\ arg = 0
    /\ result = NoResult
    /\ vigor_hit_zero = FALSE

\* A handler of a page has run: `before` is the Character it ran on and
\* `after` what it left of it.
Handled(name, amount, before, after) ==
    /\ op' = name
    /\ arg' = amount
    /\ pre' = before
    /\ character' = after
    /\ UNCHANGED vigor_hit_zero

\* character_creation_page, "Create Character": an empty name and a name
\* already in the roster are refused.
CreateCharacter ==
    /\ Idle
    /\ \E name \in RosterNames \cup {""}, vigor \in 1..RosterVigor :
        IF name # "" /\ name \notin Keys(characters)
        THEN LET new_character == NewCharacter(name, vigor, 1, 1, 0, 0)
             IN  /\ characters' = save_character(characters, new_character)
                 /\ Handled("create_character", 0, NoCharacter, new_character)
        ELSE /\ Handled("create_refused", 0, NoCharacter, NoCharacter)
             /\ UNCHANGED characters
    /\ result' = NoResult
    /\ UNCHANGED <<selected_target, last_damage_result, last_target>>

\* A handler of character_management_page has run on the character picked in
\* the page's select box.
Managed(name, amount, before, after) ==
    /\ characters' = save_character(characters, after)
    /\ Handled(name, amount, before, after)
    /\ result' = NoResult
    /\ UNCHANGED <<selected_target, last_damage_result, last_target>>

\* character_management_page, "Full Heal".
FullHeal ==
    /\ Idle
    /\ \E selected_char_name \in Keys(characters) :
        LET c == Lookup(characters, selected_char_name)
        IN  Managed("reset_to_full", 0, c, reset_to_full(c))

\* character_management_page, "Apply Vigor Change", the manual adjustment
\* that can end a life.  ("Apply Guard Change" writes guard alone, which
\* stays 0 in this roster.)
ManualAdjust ==
    /\ Idle
    /\ \E selected_char_name \in Keys(characters) :
        LET c == Lookup(characters, selected_char_name)
        IN  \E vigor_change \in (0 - RosterVigor)..RosterVigor :
                Managed("apply_vigor_change", vigor_change, c,
                        apply_vigor_change(c, vigor_change))

\* character_management_page, "Delete Character".
DeleteCharacter ==
    /\ Idle
    /\ \E selected_char_name \in Keys(characters) :
        /\ characters' = delete_character(characters, selected_char_name)
        /\ Handled("delete_character", 0,
                   Lookup(characters, selected_char_name), NoCharacter)
    /\ result' = NoResult
    /\ UNCHANGED <<selected_target, last_damage_result, last_target>>

\* The combat page has nothing to show: nobody in the roster, or nobody
\* alive.  It returns before its widgets are made.
Closed(alive) == characters = <<>> \/ alive = <<>>

\* The combat page returned early, or ran to its end with no handler
\* writing a character.
Shown(name, amount, selected) ==
    /\ selected_target' = selected
    /\ Handled(name, amount, NoCharacter, NoCharacter)
    /\ result' = NoResult
    /\ UNCHANGED <<characters, last_damage_result, last_target>>

\* combat_resolution_page, the "Apply Damage" button.  target_name is what
\* the select box over the living holds, damage_amount what the number box
\* holds.
PressApplyDamage ==
    /\ Idle
    /\ \E damage_amount \in 0..RosterDamage :
        LET alive == alive_characters(characters)
        IN  IF Closed(alive)
            THEN Shown("press_apply_damage", damage_amount, selected_target)
            ELSE \E target_name \in Keys(alive) :
                IF target_name # "" /\ damage_amount > 0
                THEN LET target_character == Lookup(characters, target_name)
                         r == apply_damage(target_character, damage_amount)
                     IN  /\ characters' = save_character(characters, r.self)
                         /\ last_damage_result' = r.result
                         /\ last_target' = target_name
                         /\ selected_target' = target_name
                         /\ result' = r.result
                         /\ Handled("apply_damage", damage_amount,
                                    target_character, r.self)
                ELSE Shown("press_apply_damage", damage_amount, target_name)

\* combat_resolution_page, the select box "Target Character": the page
\* repairs the selected target, the operator picks one of the living.
ChooseTarget ==
    /\ Idle
    /\ LET alive == alive_characters(characters)
       IN  IF Closed(alive)
           THEN Shown("choose_target", 0, selected_target)
           ELSE \E target_name \in
                    {FixedTarget(selected_target, alive)} \cup Keys(alive) :
                    Shown("choose_target", 0, target_name)

\* combat_resolution_page, "Select as Target" in the overview: a button for
\* every living character, below the select box.
SelectAsTarget ==
    /\ Idle
    /\ LET alive == alive_characters(characters)
       IN  /\ ~Closed(alive)
           /\ \E name \in Keys(alive) : Shown("select_as_target", 0, name)

\* The handler is done and the page shown again.
Rerun ==
    /\ ~Idle
    /\ op' = "idle"
    /\ arg' = 0
    /\ pre' = NoCharacter
    /\ character' = NoCharacter
    /\ result' = NoResult
    /\ UNCHANGED <<vigor_hit_zero, session>>

NextApp ==
    \/ CreateCharacter
    \/ FullHeal
    \/ ManualAdjust
    \/ DeleteCharacter
    \/ PressApplyDamage
    \/ ChooseTarget
    \/ SelectAsTarget
    \/ Rerun

SpecApp == InitApp /\ [][NextApp]_vars

\* The step is a press of "Apply Damage".
Pressed == op' \in {"apply_damage", "press_apply_damage"}

\* C19 -- Gating of damage on the combat page: over any sequence of create,
\* delete, target selection, Apply Damage, manual adjustment and full heal,
\* apply_damage is called only on a character that is in the roster and
\* alive when the call is made, and only with an amount > 0; a press of
\* Apply Damage with amount 0, or with nobody alive, changes no character
\* and stores no damage result.
C19_Gating ==
    [][/\ op' = "apply_damage" =>
              /\ \E i \in DOMAIN characters : characters[i] = pre'
              /\ pre'.is_alive
              /\ arg' > 0
       /\ Pressed /\ (arg' = 0 \/ \A i \in DOMAIN characters :
                                        ~characters[i].is_alive) =>
              UNCHANGED <<characters, last_damage_result, last_target>>
      ]_vars

\* Damage lands on a living character while a slain one stands in the
\* roster, first in line.
C19_Witness ==
    /\ op = "apply_damage"
    /\ arg > 0
    /\ pre.is_alive
    /\ Len(characters) = 2
    /\ ~characters[1].is_alive
    /\ characters[2] = character
    /\ last_target = character.name
    /\ last_damage_result = result

====
